---- MODULE Spec2Model ----
(***************************************************************************)
(* gogarin: the fleet command loop (src/main.go), the request throttle     *)
(* (src/api/api.go) and the waypoint helpers (src/lib/lib.go).             *)
(*                                                                         *)
(* Time is kept as relative timers.  A timer holds "instant - now" in      *)
(* ticks; Past (0) stands for every instant before now (the clock never    *)
(* reads exactly an instant it compares with).  t.Before(now) is Before(t) *)
(* and t.After(now), now < t, is After(t).  A tick decrements every timer  *)
(* that is not Past.                                                       *)
(***************************************************************************)
EXTENDS Integers, Sequences, FiniteSets, TLC

VARIABLES
    \* ---- Throttle (api.go:16-42) ----
    tpc,        \* position of each caller inside Throttle.Wait
    tmutex,     \* Throttle.Mutex: 0 when free, else the caller holding it
    tsince,     \* ticks elapsed since Throttle.LastRequestTime (saturates at TimeToWait)
    tsleep,     \* remaining ticks of each caller's time.Sleep
    tadmitted,  \* admissions so far (counted up to 2)
    tadmission, \* per caller: ticks since the admission its request goes out on
    \* ---- fleet (main.go) ----
    ships,      \* the m.Ship records, one per fleet ship, shared by pointer
    route,      \* remote side: destination and arrival of each ship's current route
    agent,      \* *m.Agent shared by every ShipBot: its Credits
    bots,       \* the ShipBot values (ship pointer, cooldown pointer)
    procs,      \* the goroutines started by `go` (fan-out and ship actions)
    dpc,        \* command loop: position in the select / RoleSwitch
    dbot,       \* command loop: the ShipBot `sb` received in this iteration
    cycle,      \* command loop: bookkeeping of the current iteration
    reports,    \* command loop: reports received so far
    mpc,        \* func main: position
    req,        \* the InitiateRequisitionProtocol goroutine
    crashed,    \* the process has ended: a panic, logger.Fatal, or the return of main
    err,        \* the calls whose error ended the process, or was logged at startup
    system,     \* remote side: the waypoints of the system, in listing order
    shut,       \* the channels done and completed of the command loop
    nw,         \* a call of lib.NearestWaypoint: its arguments and its result
    twin,       \* two runs of SellCargo that differ in sb.priorities only
    sale        \* SellCargo on several ships at once: the balance of the remote
                \* side, the shared sb.agent.Credits, and each goroutine

tvars == <<tpc, tmutex, tsince, tsleep, tadmitted, tadmission>>
\* what the throttle leaves alone
fvars == <<ships, route, agent, bots, procs, dpc, dbot, cycle, reports, mpc, req, crashed,
           err, system, shut, nw, twin, sale>>
\* what the goroutines of the fleet leave alone
xvars == <<tpc, tmutex, tsince, tsleep, tadmitted, tadmission, err, system, shut, nw, twin, sale>>
vars == <<tpc, tmutex, tsince, tsleep, tadmitted, tadmission,
          ships, route, agent, bots, procs, dpc, dbot, cycle, reports, mpc, req, crashed,
          err, system, shut, nw, twin, sale>>

(***************************************************************************)
(* Bounds of the model and constants of the program.                       *)
(***************************************************************************)
\* resolution of the model clock
TicksPerSecond == 4
\* goroutines calling Throttle.Wait concurrently
NumCallers == 3
\* api.go:63  NewThrottle(2)
MaxRequestsPerSecond == 2

\* main.go:412, 423, 578  an instant t with t.Before(time.Now())
Past == 0

\* main.go:412, 423, 578  t.Before(time.Now());  main.go:584  t.After(time.Now())
Before(t) == t <= Past
After(t) == t > Past

Min(a, b) == IF a < b THEN a ELSE b

\* the effect of one tick on a timer
Elapse(t) == IF t > Past THEN t - 1 ELSE Past

(***************************************************************************)
(* Throttle                                                                *)
(***************************************************************************)
Callers == 1..NumCallers

\* api.go:35  timeToWait := time.Duration(float64(time.Second) / float64(t.MaxRequestsPerSecond))
TimeToWait == TicksPerSecond \div MaxRequestsPerSecond

\* a caller that holds no admission: it is not between the stamp of its Wait
\* and its request
NoAdmission == -1

\* api.go:22-27  LastRequestTime: time.Now(), the mutex unlocked
NewThrottle ==
    /\ tmutex = 0
    /\ tsince = 0
    /\ tpc = [c \in Callers |-> "idle"]
    /\ tsleep = [c \in Callers |-> Past]
    /\ tadmitted = 0
    /\ tadmission = [c \in Callers |-> NoAdmission]

\* a method of Client that issues its request without calling c.t.Wait()
WaitCallSkipped(c) ==
    /\ tpc[c] = "idle"
    /\ tpc' = [tpc EXCEPT ![c] = "request"]
    /\ UNCHANGED <<tmutex, tsince, tsleep, tadmitted, tadmission>>
    /\ UNCHANGED fvars

\* api.go:86 (and the first line of every method of Client)  c.t.Wait(): the
\* goroutine calls Wait and blocks on the mutex
WaitCall(c) ==
    /\ tpc[c] = "idle"
    /\ tpc' = [tpc EXCEPT ![c] = "lock"]
    /\ UNCHANGED <<tmutex, tsince, tsleep, tadmitted, tadmission>>
    /\ UNCHANGED fvars

\* Wait without its mutex: the caller goes on whoever holds the lock
WaitLockUnguarded(c) ==
    /\ tpc[c] = "lock"
    /\ tmutex' = c
    /\ tpc' = [tpc EXCEPT ![c] = "since"]
    /\ UNCHANGED <<tsince, tsleep, tadmitted, tadmission>>
    /\ UNCHANGED fvars

\* api.go:30  t.Mutex.Lock()
WaitLock(c) ==
    /\ tpc[c] = "lock"
    /\ tmutex = 0
    /\ tmutex' = c
    /\ tpc' = [tpc EXCEPT ![c] = "since"]
    /\ UNCHANGED <<tsince, tsleep, tadmitted, tadmission>>
    /\ UNCHANGED fvars

\* api.go:33-39  timeSinceLastRequest := time.Since(t.LastRequestTime);
\* if timeSinceLastRequest < timeToWait { time.Sleep(timeToWait - timeSinceLastRequest) }
WaitSince(c) ==
    /\ tpc[c] = "since"
    /\ IF tsince < TimeToWait
         THEN /\ tsleep' = [tsleep EXCEPT ![c] = TimeToWait - tsince]
              /\ tpc' = [tpc EXCEPT ![c] = "sleep"]
         ELSE /\ tsleep' = tsleep
              /\ tpc' = [tpc EXCEPT ![c] = "stamp"]
    /\ UNCHANGED <<tmutex, tsince, tadmitted, tadmission>>
    /\ UNCHANGED fvars

\* api.go:38  time.Sleep returns once at least the duration has passed
WaitWake(c) ==
    /\ tpc[c] = "sleep"
    /\ tsleep[c] <= 0
    /\ tsleep' = [tsleep EXCEPT ![c] = Past]
    /\ tpc' = [tpc EXCEPT ![c] = "stamp"]
    /\ UNCHANGED <<tmutex, tsince, tadmitted, tadmission>>
    /\ UNCHANGED fvars

\* api.go:41  t.LastRequestTime = time.Now(): the admission
WaitStamp(c) ==
    /\ tpc[c] = "stamp"
    /\ tsince' = 0
    /\ tadmitted' = Min(tadmitted + 1, 2)
    /\ tadmission' = [tadmission EXCEPT ![c] = 0]
    /\ tpc' = [tpc EXCEPT ![c] = "unlock"]
    /\ UNCHANGED <<tmutex, tsleep>>
    /\ UNCHANGED fvars

\* api.go:31  defer t.Mutex.Unlock(): Wait returns to the method of Client
WaitUnlock(c) ==
    /\ tpc[c] = "unlock"
    /\ tmutex' = IF tmutex = c THEN 0 ELSE tmutex
    /\ tpc' = [tpc EXCEPT ![c] = "request"]
    /\ UNCHANGED <<tsince, tsleep, tadmitted, tadmission>>
    /\ UNCHANGED fvars

\* api.go:94-97 (and the same lines of every method of Client)  the one
\* request of the method: c.r.R()...Get(url) or Post(url)
ClientRequest(c) ==
    /\ tpc[c] = "request"
    /\ tpc' = [tpc EXCEPT ![c] = "idle"]
    /\ tadmission' = [tadmission EXCEPT ![c] = NoAdmission]
    /\ UNCHANGED <<tmutex, tsince, tsleep, tadmitted>>
    /\ UNCHANGED fvars

\* the clock advances by one tick
ThrottleTick ==
    /\ tsince' = Min(tsince + 1, TimeToWait)
    /\ tsleep' = [c \in Callers |-> Elapse(tsleep[c])]
    /\ tadmission' = [c \in Callers |->
                        IF tadmission[c] = NoAdmission
                          THEN NoAdmission
                          ELSE Min(tadmission[c] + 1, 2 * TimeToWait - 1)]
    /\ UNCHANGED <<tpc, tmutex, tadmitted>>
    /\ UNCHANGED fvars

(***************************************************************************)
(* The remote side: what the fleet is fetched from and what the calls of   *)
(* api.go answer.  The remote capability is opaque; the model gives it the *)
(* waypoints of one system and lets every call succeed or fail.  A         *)
(* navigate call that succeeds starts a route whose arrival is not before  *)
(* the arrival of the route the ship is on.                                *)
(***************************************************************************)
\* ships returned by GetMyShips (main.go:138); ships[0] is ship 1
NumShips == 2
\* goroutine slots: the goroutines alive at one time
MaxProcs == 3
\* reports the command loop receives in one run
MaxReports == 2
\* m.ShipCargo.Capacity of every ship
CargoCapacity == 2
\* longest route and longest cooldown, in ticks
MaxTravel == 1
CooldownTicks == 1
\* largest m.ShipFuel.Current
MaxFuel == 1
\* the remote side rejects a sale that would take the balance above this
MaxCredits == 2
\* sell calls recorded for one run of SellCargo
MaxCalls == 2

Ships == DOMAIN ships
Procs == 1..MaxProcs
Bots == 1..MaxProcs
Goods == {"IRON_ORE", "ICE_WATER"}
Timers == Past..MaxTravel

\* the waypoints of a system, in listing order: m.Waypoint (part_000:294-304)
Charted ==
    << [symbol |-> "PLANET", type |-> "PLANET", x |-> 0, y |-> 0,
        traits |-> <<"MARKETPLACE", "SHIPYARD">>],
       [symbol |-> "FIELD", type |-> "ASTEROID_FIELD", x |-> 1, y |-> 0,
        traits |-> <<>>],
       [symbol |-> "FIELD_MARKET", type |-> "ASTEROID_FIELD", x |-> 0, y |-> 2,
        traits |-> <<"MARKETPLACE">>],
       [symbol |-> "GIANT", type |-> "GAS_GIANT", x |-> 3, y |-> 0,
        traits |-> <<"SHIPYARD">>] >>

\* the same system without a shipyard
Yardless ==
    [k \in 1..Len(Charted) |->
       [Charted[k] EXCEPT !.traits = SelectSeq(@, LAMBDA t : t # "SHIPYARD")]]

\* the same system with no asteroid field and no marketplace
Barren ==
    [k \in 1..Len(Charted) |->
       [Charted[k] EXCEPT
          !.type = IF @ = "ASTEROID_FIELD" THEN "MOON" ELSE @,
          !.traits = SelectSeq(@, LAMBDA t : t # "MARKETPLACE")]]

Systems == {Charted, Yardless, Barren}

\* ListWaypoints(systemSymbol), when it succeeds (api.go:521-545)
Waypoints == system

Symbols == {Waypoints[k].symbol : k \in 1..Len(Waypoints)}

\* GetWaypoint(systemSymbol, waypointSymbol), when it succeeds (api.go:547-571)
GetWaypoint(symbol) ==
    Waypoints[CHOOSE k \in 1..Len(Waypoints) : Waypoints[k].symbol = symbol]

(***************************************************************************)
(* lib.go                                                                  *)
(***************************************************************************)
\* the elements of a slice
Elems(slice) == {slice[k] : k \in 1..Len(slice)}

\* lib.go:12-20  f is the func(T) bool, as a function on the elements
Filter(slice, f) ==
    LET keep(e) == f[e]
    IN  SelectSeq(slice, keep)

\* lib.go:23-30
Contains(elems, v) == \E k \in 1..Len(elems) : elems[k] = v

\* lib.go:38-40.  The square of the distance: the code compares distances with <
\* only, and math.Sqrt is strictly increasing on these integers.
Distance(c1, c2) == (c1.x - c2.x) * (c1.x - c2.x) + (c1.y - c2.y) * (c1.y - c2.y)

\* lib.go:49-55  the loop: the index kept in nearestWaypoint after the first k
\* elements (0 for nil), replaced on a strictly smaller distance only
RECURSIVE NearestIndex(_, _, _)
NearestIndex(currentWaypoint, waypoints, k) ==
    IF k = 0 THEN 0
    ELSE LET prev == NearestIndex(currentWaypoint, waypoints, k - 1)
         IN  IF prev = 0
                \/ Distance(currentWaypoint, waypoints[k])
                     < Distance(currentWaypoint, waypoints[prev])
               THEN k
               ELSE prev

\* lib.go:43-62  NearestWaypoint: the waypoints it can return, none on error.
\* nearestWaypoint = &waypoint takes the address of the range variable: with one
\* variable per loop (Go before 1.22) the pointer reads the last element of the
\* slice after the loop, with one variable per iteration (Go 1.22) the nearest.
NearestWaypoint(currentWaypoint, waypoints) ==
    IF NearestIndex(currentWaypoint, waypoints, Len(waypoints)) = 0
      THEN {}
      ELSE { waypoints[NearestIndex(currentWaypoint, waypoints, Len(waypoints))],
             waypoints[Len(waypoints)] }

(***************************************************************************)
(* ShipBot predicates (main.go:433-465)                                    *)
(***************************************************************************)
\* main.go:434-436
IsFullOfCargo(ship) == ship.cargo.units >= ship.cargo.capacity

\* main.go:439-446, GetWaypoint having succeeded
IsAtWaypointOfType(ship, waypointType) ==
    GetWaypoint(ship.nav.waypointSymbol).type = waypointType

\* main.go:449-460, GetWaypoint having succeeded
IsAtWaypointWithTrait(ship, traitSymbol) ==
    LET traits == GetWaypoint(ship.nav.waypointSymbol).traits
        matches == [t \in Elems(traits) |-> t = traitSymbol]
    IN  Len(Filter(traits, matches)) > 0

\* main.go:463-465
HasStatus(ship, status) == ship.nav.status = status

(***************************************************************************)
(* Records                                                                 *)
(***************************************************************************)
\* m.ShipCargo after the remote side adds units of a good (extract)
AddCargo(cargo, symbol, units) ==
    LET has == \E k \in 1..Len(cargo.inventory) : cargo.inventory[k].symbol = symbol
    IN  [capacity |-> cargo.capacity,
         units |-> cargo.units + units,
         inventory |->
            IF has
              THEN [k \in 1..Len(cargo.inventory) |->
                      IF cargo.inventory[k].symbol = symbol
                        THEN [symbol |-> symbol, units |-> cargo.inventory[k].units + units]
                        ELSE cargo.inventory[k]]
              ELSE Append(cargo.inventory, [symbol |-> symbol, units |-> units])]

\* the remote side holds at least these units of the good for the ship
HasCargo(cargo, symbol, units) ==
    \E k \in 1..Len(cargo.inventory) :
        cargo.inventory[k].symbol = symbol /\ cargo.inventory[k].units >= units

\* m.ShipCargo after the remote side removes units of a good (sell)
RemoveCargo(cargo, symbol, units) ==
    LET less == [k \in 1..Len(cargo.inventory) |->
                   IF cargo.inventory[k].symbol = symbol
                     THEN [symbol |-> symbol, units |-> cargo.inventory[k].units - units]
                     ELSE cargo.inventory[k]]
        stays(line) == line.units > 0
    IN  [capacity |-> cargo.capacity,
         units |-> cargo.units - units,
         inventory |-> SelectSeq(less, stays)]

\* *m.Cooldown: nil, or a cooldown with the timer of its Expiration
NilCooldown == [set |-> FALSE, expiration |-> Past]
Cooldown(t) == [set |-> TRUE, expiration |-> t]

\* a free ShipBot slot
NoBot == [ship |-> 0, cooldown |-> NilCooldown]

\* a free goroutine slot.  pc, kind and bot say where the goroutine is and on
\* which ShipBot; lines and idx are the range loop of SellCargo, sleep the timer
\* of its time.Sleep, target the waypoint chosen by a navigation.  pass, entry,
\* calls and failed record the run of an action: whether its outer loop has
\* started (pass), the inventory at its start, the sell calls it has issued
\* (the first MaxCalls of them), and whether a sell call or the ListWaypoints
\* call of a navigation has failed.
\* extracted says that ExtractResources has had a response, eta is the timer
\* of the arrival that the navigate call of a navigation returned.
NoProc == [pc |-> "idle", kind |-> "NONE", bot |-> 0, lines |-> <<>>, idx |-> 0,
           sleep |-> Past, target |-> "",
           pass |-> 0, entry |-> <<>>, calls |-> <<>>, failed |-> FALSE,
           extracted |-> FALSE, eta |-> Past]

\* the goroutine slots in use, and the first free one
Live == {p \in Procs : procs[p].pc # "idle"}
FreeProc == CHOOSE p \in Procs \ Live : \A q \in Procs \ Live : p <= q

\* positions of the command loop: the select (main.go:95-96), then the five
\* if statements of the EXCAVATOR case (main.go:103, 108, 113, 118, 123)
Select == 0
LastIf == 5
\* after the case <-done: at the send on completed (main.go:130), and after
\* the return (main.go:131)
Ack == 6
Returned == 7

\* bookkeeping of one iteration of the command loop: the role of the ship
\* received, what the loop would observe of it on receipt, whether a goroutine
\* has written the ship since, and the actions spawned so far
NoCycle == [role |-> "NONE",
            seen |-> [full |-> FALSE, market |-> FALSE, docked |-> FALSE, field |-> FALSE],
            stable |-> TRUE, spawned |-> <<>>]

\* the ship a goroutine works on
ShipOf(p) == bots[procs[p].bot].ship

\* the command loop is between receiving a report and the end of the RoleSwitch
Deciding == dpc \in 1..LastIf

\* a goroutine wrote ship i: the decision in progress on ship i is disturbed
Disturb(i) ==
    IF Deciding /\ bots[dbot].ship = i
      THEN [cycle EXCEPT !.stable = FALSE]
      ELSE cycle

(***************************************************************************)
(* The fleets GetMyShips (main.go:138-141) may return: the fleet as the     *)
(* remote side reports it.                                                 *)
(***************************************************************************)
InitCargos ==
    { [capacity |-> CargoCapacity, units |-> 0, inventory |-> <<>>],
      [capacity |-> CargoCapacity, units |-> CargoCapacity,
       inventory |-> <<[symbol |-> "IRON_ORE", units |-> CargoCapacity]>>],
      [capacity |-> CargoCapacity, units |-> CargoCapacity,
       inventory |-> <<[symbol |-> "IRON_ORE", units |-> 1],
                       [symbol |-> "ICE_WATER", units |-> CargoCapacity - 1]>>] }

\* nav of a fetched ship: docked or in orbit and arrived, or in transit
InitNavs ==
    { [waypointSymbol |-> w, destination |-> w, status |-> st, arrival |-> Past] :
        w \in Symbols, st \in {"DOCKED", "IN_ORBIT"} }
    \cup
    { [waypointSymbol |-> w, destination |-> w, status |-> "IN_TRANSIT",
       arrival |-> MaxTravel] : w \in Symbols }

InitShips ==
    { [role |-> "EXCAVATOR", nav |-> n, cargo |-> c, fuel |-> MaxFuel] :
        n \in InitNavs, c \in InitCargos }
    \cup
    { [role |-> "COMMAND", nav |-> n,
       cargo |-> [capacity |-> CargoCapacity, units |-> 0, inventory |-> <<>>],
       fuel |-> MaxFuel] : n \in InitNavs }

\* excavators docked at a marketplace with a full hold
InitEscorts ==
    { ship \in InitShips :
        /\ ship.role = "EXCAVATOR"
        /\ ship.nav.waypointSymbol = "PLANET"
        /\ ship.nav.status = "DOCKED"
        /\ Len(ship.cargo.inventory) = 1 }

\* command ships docked at a shipyard
InitFlagships ==
    { ship \in InitShips :
        /\ ship.role = "COMMAND"
        /\ ship.nav.waypointSymbol = "PLANET"
        /\ ship.nav.status = "DOCKED" }

\* the fleets: one ship in any state, several excavators, or a command ship
\* with one excavator
InitFleets ==
    {<<>>} \cup [1..1 -> InitShips] \cup UNION { [1..n -> InitEscorts] : n \in 2..NumShips }
    \cup { <<flagship, escort>> : flagship \in InitFlagships, escort \in InitEscorts }

\* no call of NearestWaypoint under way
NoQuery == [pc |-> "idle", currentWaypoint |-> <<>>, waypoints |-> <<>>, result |-> <<>>]

\* no pair of SellCargo runs under comparison
NoTwin == <<>>

\* no concurrent sale under way
NoSale == <<>>

\* done and completed as main makes them (main.go:86-87): nothing sent on either
NoSignal == [done |-> FALSE, completed |-> 0]

\* the state at the start of main (main.go:39-40): nothing fetched yet
FleetInit ==
    /\ ships = <<>>
    /\ route = <<>>
    /\ agent = [credits |-> 0]
    /\ bots = [b \in Bots |-> NoBot]
    /\ procs = [p \in Procs |-> NoProc]
    /\ dpc = Select
    /\ dbot = 0
    /\ cycle = NoCycle
    /\ reports = 0
    /\ mpc = "agent"
    /\ req = [pc |-> "idle", yards |-> <<>>, sleep |-> Past]
    /\ crashed = FALSE
    /\ err = {}
    /\ system \in Systems
    /\ shut = NoSignal
    /\ nw = NoQuery
    /\ twin = NoTwin
    /\ sale = NoSale

\* an unrecovered panic ends the process: its goroutines and its memory are gone
Panic ==
    /\ crashed' = TRUE
    /\ ships' = <<>>
    /\ route' = <<>>
    /\ bots' = [b \in Bots |-> NoBot]
    /\ procs' = [p \in Procs |-> NoProc]
    /\ dpc' = Select
    /\ dbot' = 0
    /\ cycle' = NoCycle
    /\ reports' = 0
    /\ mpc' = "panicked"
    /\ req' = [pc |-> "done", yards |-> <<>>, sleep |-> Past]
    /\ UNCHANGED <<xvars, agent>>

\* the panic of a nil dereference after the error of `call` was logged
PanicAfter(call) ==
    /\ crashed' = TRUE
    /\ ships' = <<>>
    /\ route' = <<>>
    /\ bots' = [b \in Bots |-> NoBot]
    /\ procs' = [p \in Procs |-> NoProc]
    /\ dpc' = Select
    /\ dbot' = 0
    /\ cycle' = NoCycle
    /\ reports' = 0
    /\ mpc' = "panicked"
    /\ req' = [pc |-> "done", yards |-> <<>>, sleep |-> Past]
    /\ err' = err \cup {call}
    /\ UNCHANGED <<tvars, system, shut, nw, twin, sale, agent>>

(***************************************************************************)
(* Startup (main.go:39-141)                                                *)
(***************************************************************************)
\* logger.Error in the place of logger.Fatal: the error is logged and main goes on
Error(call, next) ==
    /\ err' = err \cup {call}
    /\ mpc' = next
    /\ UNCHANGED <<tvars, ships, route, agent, bots, procs, dpc, dbot, cycle, reports,
                   req, crashed, system, shut, nw, twin, sale>>

\* main.go:47-49, 58-60, 69-71, 139-141  logger.Fatal(...) on the error of
\* `call`: the message is logged and the process exits
Fatal(call, next) ==
    /\ err' = err \cup {call}
    /\ mpc' = "fatal"
    /\ crashed' = TRUE
    /\ UNCHANGED <<tvars, ships, route, agent, bots, procs, dpc, dbot, cycle, reports,
                   req, system, shut, nw, twin, sale>>

\* a step of main that touches only its position
MainGoto(next) ==
    /\ mpc' = next
    /\ UNCHANGED <<xvars, ships, route, agent, bots, procs, dpc, dbot, cycle, reports,
                   req, crashed>>

\* main.go:46-50  agent, err := tb.GetMyAgent()
MainGetMyAgent ==
    /\ ~crashed
    /\ mpc = "agent"
    /\ \/ MainGoto("contracts")
       \/ Fatal("GetMyAgent", "contracts")

\* main.go:57-61  contracts, err := ab.GetMyContracts()
MainGetMyContracts ==
    /\ ~crashed
    /\ mpc = "contracts"
    /\ \/ MainGoto("accept")
       \/ Fatal("GetMyContracts", "accept")

\* main.go:64-92  every contract not yet accepted is accepted, the priorities
\* are determined (DeterminePriorities returns no error) and the command loop
\* is started
MainAcceptContracts ==
    /\ ~crashed
    /\ mpc = "accept"
    /\ \/ MainGoto("fleet")
       \/ Fatal("AcceptContract", "fleet")

\* main.go:138-156  ships, err := c.GetMyShips(); with a fleet, the
\* requisition protocol is started on a copy of ships[0] and main waits for it
MainGetMyShips ==
    /\ ~crashed
    /\ mpc = "fleet"
    /\ \/ /\ ships' \in InitFleets
          /\ route' = [i \in DOMAIN ships' |->
                         [destination |-> ships'[i].nav.destination,
                          arrival |-> ships'[i].nav.arrival]]
          /\ IF Len(ships') > 0
               THEN /\ mpc' = "requisition"
                    /\ req' = [pc |-> "find", yards |-> <<>>, sleep |-> Past]
               ELSE /\ mpc' = "fanout"
                    /\ req' = req
          /\ UNCHANGED <<xvars, agent, bots, procs, dpc, dbot, cycle, reports, crashed>>
       \/ Fatal("GetMyShips", "fanout")

\* the counter of a WaitGroup on which each goroutine of the fan-out calls
\* Done when its send has been received
WaitGroupJoined == Cardinality({p \in DOMAIN procs : procs[p].kind = "FANOUT"})

\* main.go:160-161  wg.Add(1) and defer wg.Done() once per ship, in main: the
\* deferred calls run when main returns, so at wg.Wait() (main.go:181) the
\* counter is the number of ships
WaitGroupCounter == Len(ships)

\* main.go:181-185  wg.Wait() returns when the counter is zero; main then
\* returns and the process exits
MainReturn ==
    /\ ~crashed
    /\ mpc = "barrier"
    /\ WaitGroupCounter = 0
    /\ crashed' = TRUE
    /\ mpc' = "exited"
    /\ UNCHANGED <<xvars, ships, route, agent, bots, procs, dpc, dbot, cycle, reports, req>>

(***************************************************************************)
(* Requisition protocol (main.go:143-156, 550-617)                         *)
(* The ShipBot of the protocol works on a copy of ships[0] (main.go:148)   *)
(* that nothing writes; until the fan-out the record of ship 1 equals it.  *)
(***************************************************************************)
\* main.go:600-617, ListWaypoints having succeeded
FindWaypointsByTrait(trait) ==
    LET hasTrait == [w \in Elems(Waypoints) |-> Contains(w.traits, trait)]
    IN  Filter(Waypoints, hasTrait)

\* main.go:411-419  the timer WaitUntilArrival sleeps on (Past: no wait)
WaitUntilArrival(ship) ==
    IF Before(ship.nav.arrival) THEN Past ELSE ship.nav.arrival

\* WaitUntilCooldown that never sleeps
WaitUntilCooldownSkipped(cooldown) == Past

\* main.go:421-431  the timer WaitUntilCooldown sleeps on (Past: no wait)
WaitUntilCooldown(cooldown) ==
    IF Before(cooldown.expiration) THEN Past ELSE cooldown.expiration

\* the protocol goes on to the next shipyard; after the last one the deferred
\* wg.Done() (main.go:551) releases main from wg.Wait() (main.go:155)
ReqReturn ==
    IF Len(req.yards) > 1
      THEN /\ req' = [pc |-> "navigate", yards |-> Tail(req.yards), sleep |-> Past]
           /\ mpc' = mpc
      ELSE /\ req' = [pc |-> "done", yards |-> <<>>, sleep |-> Past]
           /\ mpc' = "fanout"

\* the start of the protocol without the panic of main.go:563-565: with no
\* shipyard the loop over the waypoints is empty and the protocol returns
ReqFindLenient ==
    /\ ~crashed
    /\ mpc = "requisition"
    /\ req.pc = "find"
    /\ \/ LET waypoints == FindWaypointsByTrait("SHIPYARD")
          IN  /\ IF Len(waypoints) = 0
                   THEN ReqReturn
                   ELSE /\ req' = [pc |-> "navigate",
                                   yards |-> [k \in 1..Len(waypoints) |-> waypoints[k].symbol],
                                   sleep |-> Past]
                        /\ mpc' = mpc
              /\ UNCHANGED <<xvars, ships, route, agent, bots, procs, dpc, dbot,
                             cycle, reports, crashed>>
       \/ Panic

\* main.go:557-566
ReqFind ==
    /\ ~crashed
    /\ mpc = "requisition"
    /\ req.pc = "find"
    /\ \/ \* ListWaypoints answers
          LET waypoints == FindWaypointsByTrait("SHIPYARD")
          IN  IF Len(waypoints) = 0
                THEN \* panic("no shipyards found. Not yet handled.")
                     Panic
                ELSE /\ req' = [pc |-> "navigate",
                                yards |-> [k \in 1..Len(waypoints) |-> waypoints[k].symbol],
                                sleep |-> Past]
                     /\ UNCHANGED <<xvars, ships, route, agent, bots, procs, dpc, dbot,
                                    cycle, reports, mpc, crashed>>
       \/ \* ListWaypoints fails: waypoints is nil and len(*waypoints) panics
          Panic

\* NavigateShip without its two checks: the navigate call is issued at once
ReqNavigateAlways ==
    /\ ~crashed
    /\ req.pc = "navigate"
    /\ req' = [req EXCEPT !.pc = "call"]
    /\ UNCHANGED <<xvars, ships, route, agent, bots, procs, dpc, dbot, cycle, reports, mpc,
                   crashed>>

\* main.go:576-592  NavigateShip up to the navigate call
ReqNavigate ==
    /\ ~crashed
    /\ req.pc = "navigate"
    /\ LET waypointSymbol == Head(req.yards)
           nav == ships[1].nav
       IN  IF nav.waypointSymbol = waypointSymbol /\ Before(nav.arrival)
             THEN ReqReturn
             ELSE /\ mpc' = mpc
                  /\ IF After(nav.arrival)
                       THEN req' = [req EXCEPT
                                      !.pc = IF nav.destination = waypointSymbol
                                               THEN "sleep_return" ELSE "sleep_call",
                                      !.sleep = WaitUntilArrival(ships[1])]
                       ELSE req' = [req EXCEPT !.pc = "call"]
    /\ UNCHANGED <<xvars, ships, route, agent, bots, procs, dpc, dbot, cycle, reports, crashed>>

\* main.go:587, 591  time.Sleep(time.Until(arrival)) returns
ReqWake ==
    /\ ~crashed
    /\ req.pc \in {"sleep_return", "sleep_call"}
    /\ req.sleep <= 0
    /\ IF req.pc = "sleep_return"
         THEN ReqReturn
         ELSE /\ req' = [req EXCEPT !.pc = "call", !.sleep = Past]
              /\ mpc' = mpc
    /\ UNCHANGED <<xvars, ships, route, agent, bots, procs, dpc, dbot, cycle, reports, crashed>>

\* api.go:221-250  the arrivals a navigate call for ship i can return
Arrivals(i) == {t \in Timers : t >= route[i].arrival}

\* main.go:594-597  the navigate call; the response is dropped
ReqCall ==
    /\ ~crashed
    /\ req.pc = "call"
    /\ \/ \E t \in Arrivals(1) :
            route' = [route EXCEPT ![1] = [destination |-> Head(req.yards), arrival |-> t]]
       \/ route' = route
    /\ ReqReturn
    /\ UNCHANGED <<xvars, ships, agent, bots, procs, dpc, dbot, cycle, reports, crashed>>

(***************************************************************************)
(* Fan-out (main.go:158-181)                                               *)
(***************************************************************************)
\* the fan-out without the wg.Wait() of main.go:155 before it
MainFanOutUnawaited ==
    /\ ~crashed
    /\ mpc \in {"requisition", "fanout"}
    /\ mpc' = "barrier"
    /\ procs' = [p \in Procs |->
                   IF p \in Ships
                     THEN [NoProc EXCEPT !.pc = "probe", !.kind = "FANOUT", !.bot = p]
                     ELSE NoProc]
    /\ bots' = [b \in Bots |->
                  IF b \in Ships THEN [ship |-> b, cooldown |-> NilCooldown] ELSE NoBot]
    /\ UNCHANGED <<xvars, ships, route, agent, dpc, dbot, cycle, reports, req, crashed>>

\* the fan-out with one ship record for all its goroutines: each ShipBot is
\* made on the first ship
MainFanOutShared ==
    /\ ~crashed
    /\ mpc = "fanout"
    /\ mpc' = "barrier"
    /\ procs' = [p \in Procs |->
                   IF p \in Ships
                     THEN [NoProc EXCEPT !.pc = "probe", !.kind = "FANOUT", !.bot = p]
                     ELSE NoProc]
    /\ bots' = [b \in Bots |->
                  IF b \in Ships THEN [ship |-> 1, cooldown |-> NilCooldown] ELSE NoBot]
    /\ UNCHANGED <<xvars, ships, route, agent, dpc, dbot, cycle, reports, req, crashed>>

\* main.go:155-179  after wg.Wait(): one goroutine per ship, each with its own
\* copy of the ship and a new ShipBot; main then blocks in wg.Wait() (main.go:181)
MainFanOut ==
    /\ ~crashed
    /\ mpc = "fanout"
    /\ mpc' = "barrier"
    /\ procs' = [p \in Procs |->
                   IF p \in Ships
                     THEN [NoProc EXCEPT !.pc = "probe", !.kind = "FANOUT", !.bot = p]
                     ELSE NoProc]
    /\ bots' = [b \in Bots |->
                  IF b \in Ships THEN [ship |-> b, cooldown |-> NilCooldown] ELSE NoBot]
    /\ UNCHANGED <<xvars, ships, route, agent, dpc, dbot, cycle, reports, req, crashed>>

\* main.go:170-174, 540-547  cooldown, err := sb.GetShipCooldown(); sb.cooldown = cooldown
GetShipCooldown(p) ==
    /\ ~crashed
    /\ procs[p].pc = "probe"
    /\ \/ \E t \in Past..CooldownTicks :
            bots' = [bots EXCEPT ![procs[p].bot].cooldown = Cooldown(t)]
       \/ \* the error is logged and sb.cooldown is nil
          bots' = [bots EXCEPT ![procs[p].bot].cooldown = NilCooldown]
    /\ procs' = [procs EXCEPT ![p].pc = "report"]
    /\ UNCHANGED <<xvars, ships, route, agent, dpc, dbot, cycle, reports, mpc, req, crashed>>

(***************************************************************************)
(* Command loop (main.go:92-134)                                           *)
(* Each if statement of the EXCAVATOR case is one step: its calls of       *)
(* GetWaypoint pass the throttle, so goroutines spawned by an earlier if   *)
(* run between two if statements.                                          *)
(***************************************************************************)
\* the ShipBot slots referenced by a goroutine
BotsInUse(ps) == {ps[p].bot : p \in {q \in Procs : ps[q].pc # "idle"}}
FreeBot(ps) == CHOOSE b \in Bots \ BotsInUse(ps) : \A c \in Bots \ BotsInUse(ps) : b <= c

\* what the command loop observes of a ship
Observe(ship) ==
    [full |-> IsFullOfCargo(ship),
     market |-> IsAtWaypointWithTrait(ship, "MARKETPLACE"),
     docked |-> ship.nav.status = "DOCKED",
     field |-> IsAtWaypointOfType(ship, "ASTEROID_FIELD")]

\* a command loop whose RoleSwitch takes every role through the case of EXCAVATOR
ReceiveAnyRole(p) ==
    /\ ~crashed
    /\ dpc = Select
    /\ reports < MaxReports
    /\ reports' = reports + 1
    /\ procs[p].pc = "report"
    /\ LET after == [procs EXCEPT ![p] = NoProc]
           old == procs[p].bot
           sb == IF old \in BotsInUse(after) THEN FreeBot(after) ELSE old
           ship == ships[bots[old].ship]
       IN  /\ procs' = after
           /\ dpc' = 1
           /\ dbot' = sb
           /\ bots' = [bots EXCEPT ![sb] = bots[old]]
           /\ cycle' = [role |-> ship.role, seen |-> Observe(ship),
                        stable |-> TRUE, spawned |-> <<>>]
    /\ UNCHANGED <<xvars, ships, route, agent, mpc, req, crashed>>

\* main.go:96-101  sb := <-sbCh receives the copy *sb a goroutine is sending;
\* the sender returns.  Role COMMAND (and any other role) does nothing.
Receive(p) ==
    /\ ~crashed
    /\ dpc = Select
    /\ reports < MaxReports
    /\ reports' = reports + 1
    /\ procs[p].pc = "report"
    /\ LET after == [procs EXCEPT ![p] = NoProc]
           old == procs[p].bot
           sb == IF old \in BotsInUse(after) THEN FreeBot(after) ELSE old
           ship == ships[bots[old].ship]
       IN  /\ procs' = after
           /\ IF ship.role = "EXCAVATOR"
                THEN /\ dpc' = 1
                     /\ dbot' = sb
                     /\ bots' = [bots EXCEPT ![sb] = bots[old]]
                     /\ cycle' = [role |-> ship.role, seen |-> Observe(ship),
                                  stable |-> TRUE, spawned |-> <<>>]
                ELSE /\ dpc' = Select
                     /\ dbot' = 0
                     /\ bots' = IF old \in BotsInUse(after)
                                  THEN bots ELSE [bots EXCEPT ![old] = NoBot]
                     /\ cycle' = [NoCycle EXCEPT !.role = ship.role]
    /\ UNCHANGED <<xvars, ships, route, agent, mpc, req, crashed>>

\* the conditions without the test of the dock status in the second one
ConditionDockAnyway(k, ship) ==
    CASE k = 1 -> /\ IsFullOfCargo(ship)
                  /\ IsAtWaypointWithTrait(ship, "MARKETPLACE")
                  /\ ship.nav.status = "DOCKED"
      [] k = 2 -> /\ IsFullOfCargo(ship)
                  /\ IsAtWaypointWithTrait(ship, "MARKETPLACE")
      [] k = 3 -> /\ IsFullOfCargo(ship)
                  /\ ~IsAtWaypointWithTrait(ship, "MARKETPLACE")
      [] k = 4 -> /\ ~IsFullOfCargo(ship)
                  /\ IsAtWaypointOfType(ship, "ASTEROID_FIELD")
      [] k = 5 -> /\ ~IsFullOfCargo(ship)
                  /\ ~IsAtWaypointOfType(ship, "ASTEROID_FIELD")

\* main.go:103, 108, 113, 118, 123  the condition of the k-th if statement
Condition(k, ship) ==
    CASE k = 1 -> /\ IsFullOfCargo(ship)
                  /\ IsAtWaypointWithTrait(ship, "MARKETPLACE")
                  /\ ship.nav.status = "DOCKED"
      [] k = 2 -> /\ IsFullOfCargo(ship)
                  /\ IsAtWaypointWithTrait(ship, "MARKETPLACE")
                  /\ ship.nav.status # "DOCKED"
      [] k = 3 -> /\ IsFullOfCargo(ship)
                  /\ ~IsAtWaypointWithTrait(ship, "MARKETPLACE")
      [] k = 4 -> /\ ~IsFullOfCargo(ship)
                  /\ IsAtWaypointOfType(ship, "ASTEROID_FIELD")
      [] k = 5 -> /\ ~IsFullOfCargo(ship)
                  /\ ~IsAtWaypointOfType(ship, "ASTEROID_FIELD")

\* the k-th condition gets as far as its GetWaypoint call (&& short-circuits)
CallsGetWaypoint(k, ship) ==
    IF k <= 3 THEN IsFullOfCargo(ship) ELSE ~IsFullOfCargo(ship)

\* main.go:105, 110, 115, 120, 125  the method the k-th if statement starts
Mission(k) ==
    CASE k = 1 -> "SellCargo"
      [] k = 2 -> "DockShip"
      [] k = 3 -> "NavigateToNearestWaypointWithTrait"
      [] k = 4 -> "ExtractResources"
      [] k = 5 -> "NavigateToNearestWaypointOfType"

\* the first position of each method
Entry(kind) ==
    CASE kind = "SellCargo" -> "sell_loop"
      [] kind = "DockShip" -> "dock_call"
      [] kind = "ExtractResources" -> "extract_loop"
      [] kind = "NavigateToNearestWaypointWithTrait" -> "nav_list"
      [] kind = "NavigateToNearestWaypointOfType" -> "nav_list"

\* main.go:103-126  one if statement: `go sb.<mission>(sbCh)` when it holds
RoleSwitch(k) ==
    /\ ~crashed
    /\ dpc = k
    /\ LET ship == ships[bots[dbot].ship]
           after == IF Condition(k, ship)
                      THEN [procs EXCEPT ![FreeProc] =
                              [NoProc EXCEPT !.pc = Entry(Mission(k)),
                                             !.kind = Mission(k), !.bot = dbot]]
                      ELSE procs
       IN  /\ Condition(k, ship) => Procs \ Live # {}
           /\ procs' = after
           /\ cycle' = IF Condition(k, ship)
                         THEN [cycle EXCEPT !.spawned = Append(@, Mission(k))]
                         ELSE cycle
           /\ IF k < LastIf
                THEN /\ dpc' = k + 1
                     /\ UNCHANGED <<dbot, bots>>
                ELSE /\ dpc' = Select
                     /\ dbot' = 0
                     /\ bots' = IF dbot \in BotsInUse(after)
                                  THEN bots ELSE [bots EXCEPT ![dbot] = NoBot]
    /\ UNCHANGED <<xvars, ships, route, agent, reports, mpc, req, crashed>>

\* main.go:440-445, 450-455  GetWaypoint fails: waypoint is nil and
\* waypoint.Type / waypoint.Traits panics
RoleSwitchPanic(k) ==
    /\ ~crashed
    /\ dpc = k
    /\ CallsGetWaypoint(k, ships[bots[dbot].ship])
    /\ Panic

(***************************************************************************)
(* Ship actions (main.go:285-538).  A call of the remote side and the      *)
(* assignments that follow it are one step here; SellersSpec takes the     *)
(* sell call and its assignments apart, for goroutines that share the      *)
(* agent.                                                                  *)
(***************************************************************************)
\* the goroutine goes to position pc
Goto(p, pc) == [procs EXCEPT ![p].pc = pc]

\* main.go:468-470, 503-506  the outer for: range over the inventory while
\* units > 0 (the range expression is evaluated once), else break
SellCargoLoop(p) ==
    /\ ~crashed
    /\ procs[p].pc = "sell_loop"
    /\ LET cargo == ships[ShipOf(p)].cargo
           first == procs[p].pass = 0
       IN  IF cargo.units > 0
             THEN procs' = [procs EXCEPT
                              ![p].lines = cargo.inventory,
                              ![p].idx = 1,
                              ![p].pc = IF Len(cargo.inventory) = 0
                                          THEN "sell_loop" ELSE "sell_call",
                              ![p].pass = 1,
                              ![p].entry = IF first THEN cargo.inventory ELSE @]
             ELSE procs' = [procs EXCEPT ![p].pc = "report", ![p].pass = 1]
    /\ UNCHANGED <<xvars, ships, route, agent, bots, dpc, dbot, cycle, reports, mpc, req, crashed>>

\* the range loop goes to its next line; after the last one the outer for repeats
SellCargoNext(p) ==
    IF procs[p].idx < Len(procs[p].lines)
      THEN [procs EXCEPT ![p].idx = @ + 1]
      ELSE [procs EXCEPT ![p].pc = "sell_loop", ![p].lines = <<>>, ![p].idx = 0]

\* the sell call is recorded
SellCargoAsked(ps, p, good, ok) ==
    IF Len(procs[p].calls) < MaxCalls
      THEN [ps EXCEPT ![p].calls =
              Append(@, [symbol |-> good.symbol, units |-> good.units, ok |-> ok])]
      ELSE ps

\* a sell call whose failure takes a credit from the agent
SellCargoCallCharged(p) ==
    /\ ~crashed
    /\ procs[p].pc = "sell_call"
    /\ LET i == ShipOf(p)
           good == procs[p].lines[procs[p].idx]
       IN  \/ /\ HasCargo(ships[i].cargo, good.symbol, good.units)
              /\ agent.credits + good.units <= MaxCredits
              /\ ships' = [ships EXCEPT ![i].cargo = RemoveCargo(@, good.symbol, good.units)]
              /\ agent' = [agent EXCEPT !.credits = @ + good.units]
              /\ procs' = SellCargoAsked(SellCargoNext(p), p, good, TRUE)
              /\ cycle' = Disturb(i)
           \/ /\ procs' = SellCargoAsked(
                            [procs EXCEPT ![p].pc = "sell_loop", ![p].lines = <<>>,
                                          ![p].idx = 0, ![p].failed = TRUE],
                            p, good, FALSE)
              /\ agent' = [agent EXCEPT !.credits = IF @ > 0 THEN @ - 1 ELSE 0]
              /\ UNCHANGED <<ships, cycle>>
    /\ UNCHANGED <<xvars, route, bots, dpc, dbot, reports, mpc, req, crashed>>

\* main.go:471-501  one line of the inventory: SellCargo(symbol, good.Units).
\* sb.priorities is never assigned, and both branches of lib.Contains do the same.
SellCargoCall(p) ==
    /\ ~crashed
    /\ procs[p].pc = "sell_call"
    /\ LET i == ShipOf(p)
           good == procs[p].lines[procs[p].idx]
       IN  \/ \* the sale: sb.ship.Cargo = res.Cargo; sb.agent.Credits = res.Agent.Credits
              /\ HasCargo(ships[i].cargo, good.symbol, good.units)
              /\ agent.credits + good.units <= MaxCredits
              /\ ships' = [ships EXCEPT ![i].cargo = RemoveCargo(@, good.symbol, good.units)]
              /\ agent' = [agent EXCEPT !.credits = @ + good.units]
              /\ procs' = SellCargoAsked(SellCargoNext(p), p, good, TRUE)
              /\ cycle' = Disturb(i)
           \/ \* the call fails: break leaves the range loop only
              /\ procs' = SellCargoAsked(
                            [procs EXCEPT ![p].pc = "sell_loop", ![p].lines = <<>>,
                                          ![p].idx = 0, ![p].failed = TRUE],
                            p, good, FALSE)
              /\ UNCHANGED <<ships, agent, cycle>>
    /\ UNCHANGED <<xvars, route, bots, dpc, dbot, reports, mpc, req, crashed>>

\* main.go:513-515, 531-534  if !sb.IsFullOfCargo() { sb.WaitUntilCooldown() ... } else break
ExtractResourcesLoop(p) ==
    /\ ~crashed
    /\ procs[p].pc = "extract_loop"
    /\ LET cooldown == bots[procs[p].bot].cooldown
       IN  IF ~IsFullOfCargo(ships[ShipOf(p)]) /\ ~cooldown.set
             THEN \* sb.cooldown is nil, the probe having failed:
                  \* sb.cooldown.Expiration panics (main.go:423)
                  PanicAfter("GetShipCooldown")
             ELSE /\ procs' = IF IsFullOfCargo(ships[ShipOf(p)])
                                THEN Goto(p, "report")
                                ELSE [procs EXCEPT ![p].pc = "extract_sleep",
                                                   ![p].sleep = WaitUntilCooldown(cooldown)]
                  /\ UNCHANGED <<xvars, ships, route, agent, bots, dpc, dbot, cycle,
                                 reports, mpc, req, crashed>>

\* main.go:424-430  WaitUntilCooldown returns
ExtractResourcesWake(p) ==
    /\ ~crashed
    /\ procs[p].pc = "extract_sleep"
    /\ procs[p].sleep <= 0
    /\ procs' = [procs EXCEPT ![p].pc = "extract_call", ![p].sleep = Past]
    /\ UNCHANGED <<xvars, ships, route, agent, bots, dpc, dbot, cycle, reports, mpc, req, crashed>>

\* main.go:517-530  the extract call
ExtractResourcesCall(p) ==
    /\ ~crashed
    /\ procs[p].pc = "extract_call"
    /\ LET i == ShipOf(p)
       IN  \/ \* the yield fits the hold: sb.ship.Cargo = res.Cargo; sb.cooldown = &res.Cooldown
              /\ \E symbol \in Goods :
                 \E units \in 1..(ships[i].cargo.capacity - ships[i].cargo.units) :
                    ships' = [ships EXCEPT ![i].cargo = AddCargo(@, symbol, units)]
              /\ bots' = [bots EXCEPT ![procs[p].bot].cooldown = Cooldown(CooldownTicks)]
              /\ procs' = [procs EXCEPT ![p].pc = "extract_loop", ![p].extracted = TRUE]
              /\ cycle' = Disturb(i)
           \/ \* the call fails: break
              /\ procs' = Goto(p, "report")
              /\ UNCHANGED <<ships, bots, cycle>>
    /\ UNCHANGED <<xvars, route, agent, dpc, dbot, reports, mpc, req, crashed>>

\* main.go:398-408  DockShip
DockShipCall(p) ==
    /\ ~crashed
    /\ procs[p].pc = "dock_call"
    /\ LET i == ShipOf(p)
       IN  \/ \* sb.ship.Nav = *nav, the nav of the remote side
              /\ ships' = [ships EXCEPT ![i].nav =
                             [waypointSymbol |-> route[i].destination,
                              destination |-> route[i].destination,
                              status |-> "DOCKED",
                              arrival |-> route[i].arrival]]
              /\ procs' = Goto(p, "report")
              /\ cycle' = Disturb(i)
              /\ UNCHANGED <<xvars, route, agent, bots, dpc, dbot, reports, mpc, req, crashed>>
           \/ \* the call fails: nav is nil and *nav panics (main.go:405)
              PanicAfter("DockShip")

\* main.go:296-298, 342-350  the candidates of the criterion
Candidates(kind, waypoints) ==
    LET ofType == [w \in Elems(waypoints) |-> w.type = "ASTEROID_FIELD"]
        withTrait == [w \in Elems(waypoints) |-> Contains(w.traits, "MARKETPLACE")]
    IN  IF kind = "NavigateToNearestWaypointOfType"
          THEN Filter(waypoints, ofType)
          ELSE Filter(waypoints, withTrait)

\* a search that goes on to the navigate call when no waypoint matches, with
\* the waypoint of the ship as its target
NavigateListAnyway(p) ==
    /\ ~crashed
    /\ procs[p].pc = "nav_list"
    /\ procs' = [procs EXCEPT ![p].pc = "nav_call",
                              ![p].target = ships[ShipOf(p)].nav.waypointSymbol]
    /\ UNCHANGED <<xvars, ships, route, agent, bots, dpc, dbot, cycle, reports, mpc, req,
                   crashed>>

\* main.go:289-309, 337-361  ListWaypoints, the filters and lib.NearestWaypoint
NavigateList(p) ==
    /\ ~crashed
    /\ procs[p].pc = "nav_list"
    /\ LET i == ShipOf(p)
           isCurrent == [w \in Elems(Waypoints) |->
                           w.symbol = ships[i].nav.waypointSymbol]
           currentWaypoint == Filter(Waypoints, isCurrent)[1]
           nearest == NearestWaypoint(currentWaypoint, Candidates(procs[p].kind, Waypoints))
           rest == <<xvars, ships, route, agent, bots, dpc, dbot, cycle, reports, mpc, req,
                     crashed>>
       IN  \/ /\ IF nearest = {}
                   THEN procs' = Goto(p, "report")
                   ELSE \E w \in nearest :
                          procs' = [procs EXCEPT ![p].pc = "nav_call", ![p].target = w.symbol]
              /\ UNCHANGED rest
           \/ \* ListWaypoints fails: the type variant reports back (main.go:290-294)
              /\ procs[p].kind = "NavigateToNearestWaypointOfType"
              /\ procs' = [procs EXCEPT ![p].pc = "report", ![p].failed = TRUE]
              /\ UNCHANGED rest
           \/ \* ListWaypoints fails: the trait variant goes on and *waypoints
              \* panics (main.go:338-342)
              /\ procs[p].kind = "NavigateToNearestWaypointWithTrait"
              /\ PanicAfter("ListWaypoints")

\* main.go:314-323, 366-375  the navigate call and the two assignments
NavigateCall(p) ==
    /\ ~crashed
    /\ procs[p].pc = "nav_call"
    /\ LET i == ShipOf(p)
       IN  \/ \* sb.ship.Fuel = res.Fuel; sb.ship.Nav = res.Nav
              \E t \in Arrivals(i) :
                 LET nav == [waypointSymbol |-> procs[p].target,
                             destination |-> procs[p].target,
                             status |-> "IN_TRANSIT",
                             arrival |-> t]
                 IN  /\ ships' = [ships EXCEPT ![i].nav = nav,
                                                ![i].fuel = IF @ > 0 THEN @ - 1 ELSE 0]
                     /\ route' = [route EXCEPT ![i] =
                                    [destination |-> procs[p].target, arrival |-> t]]
                     /\ procs' = [procs EXCEPT
                                    ![p].pc = "nav_wait",
                                    ![p].target = "",
                                    ![p].eta = t]
                     /\ cycle' = Disturb(i)
           \/ \* the call fails: the ship reports back
              /\ procs' = [procs EXCEPT ![p].pc = "report", ![p].target = ""]
              /\ UNCHANGED <<ships, route, cycle>>
    /\ UNCHANGED <<xvars, agent, bots, dpc, dbot, reports, mpc, req, crashed>>

\* a navigation that does not wait: the ship is sent back at once
NavigateWaitSkipped(p) ==
    /\ ~crashed
    /\ procs[p].pc = "nav_wait"
    /\ procs' = [procs EXCEPT ![p].pc = "nav_sleep", ![p].sleep = Past]
    /\ UNCHANGED <<xvars, ships, route, agent, bots, dpc, dbot, cycle, reports, mpc, req, crashed>>

\* main.go:326, 378, 411-418  sb.WaitUntilArrival() reads
\* sb.ship.Nav.Route.Arrival and sleeps until then
NavigateWait(p) ==
    /\ ~crashed
    /\ procs[p].pc = "nav_wait"
    /\ procs' = [procs EXCEPT ![p].pc = "nav_sleep",
                              ![p].sleep = WaitUntilArrival(ships[ShipOf(p)])]
    /\ UNCHANGED <<xvars, ships, route, agent, bots, dpc, dbot, cycle, reports, mpc, req, crashed>>

\* main.go:412-418, 329, 381  WaitUntilArrival returns
NavigateWake(p) ==
    /\ ~crashed
    /\ procs[p].pc = "nav_sleep"
    /\ procs[p].sleep <= 0
    /\ procs' = [procs EXCEPT ![p].pc = "report", ![p].sleep = Past]
    /\ UNCHANGED <<xvars, ships, route, agent, bots, dpc, dbot, cycle, reports, mpc, req, crashed>>

\* the clock advances by one tick
Tick ==
    /\ ~crashed
    /\ ships' = [i \in Ships |-> [ships[i] EXCEPT !.nav.arrival = Elapse(@)]]
    /\ route' = [i \in Ships |-> [route[i] EXCEPT !.arrival = Elapse(@)]]
    /\ bots' = [b \in Bots |-> [bots[b] EXCEPT !.cooldown.expiration = Elapse(@)]]
    /\ procs' = [p \in Procs |-> [procs[p] EXCEPT !.sleep = Elapse(@), !.eta = Elapse(@)]]
    /\ req' = [req EXCEPT !.sleep = Elapse(@)]
    /\ UNCHANGED <<xvars, agent, dpc, dbot, cycle, reports, mpc, crashed>>

(***************************************************************************)
(* Specifications                                                          *)
(***************************************************************************)
\* the fleet; the throttle is at rest
Init ==
    /\ NewThrottle
    /\ FleetInit

Next ==
    \/ MainGetMyAgent
    \/ MainGetMyContracts
    \/ MainAcceptContracts
    \/ MainGetMyShips
    \/ MainReturn
    \/ ReqFind
    \/ ReqNavigate
    \/ ReqWake
    \/ ReqCall
    \/ MainFanOut
    \/ \E p \in Procs : GetShipCooldown(p)
    \/ \E p \in Procs : Receive(p)
    \/ \E k \in 1..LastIf : RoleSwitch(k)
    \/ \E k \in 1..LastIf : RoleSwitchPanic(k)
    \/ \E p \in Procs : SellCargoLoop(p)
    \/ \E p \in Procs : SellCargoCall(p)
    \/ \E p \in Procs : ExtractResourcesLoop(p)
    \/ \E p \in Procs : ExtractResourcesWake(p)
    \/ \E p \in Procs : ExtractResourcesCall(p)
    \/ \E p \in Procs : DockShipCall(p)
    \/ \E p \in Procs : NavigateList(p)
    \/ \E p \in Procs : NavigateCall(p)
    \/ \E p \in Procs : NavigateWait(p)
    \/ \E p \in Procs : NavigateWake(p)
    \/ Tick

Spec == Init /\ [][Next]_vars

\* the throttle alone: the callers of Wait; no fleet
FleetAtRest ==
    /\ ships = <<>>
    /\ route = <<>>
    /\ agent = [credits |-> 0]
    /\ bots = [b \in Bots |-> NoBot]
    /\ procs = [p \in Procs |-> NoProc]
    /\ dpc = Select
    /\ dbot = 0
    /\ cycle = NoCycle
    /\ reports = 0
    /\ mpc = "exited"
    /\ req = [pc |-> "done", yards |-> <<>>, sleep |-> Past]
    /\ crashed = FALSE
    /\ err = {}
    /\ system = Charted
    /\ shut = NoSignal

ThrottleInit ==
    /\ NewThrottle
    /\ FleetAtRest
    /\ nw = NoQuery
    /\ twin = NoTwin
    /\ sale = NoSale

ThrottleNext ==
    \/ \E c \in Callers : WaitCall(c)
    \/ \E c \in Callers : WaitLock(c)
    \/ \E c \in Callers : WaitSince(c)
    \/ \E c \in Callers : WaitWake(c)
    \/ \E c \in Callers : WaitStamp(c)
    \/ \E c \in Callers : WaitUnlock(c)
    \/ \E c \in Callers : ClientRequest(c)
    \/ ThrottleTick

ThrottleSpec == ThrottleInit /\ [][ThrottleNext]_vars

\* the scheduler runs every goroutine that can take a step, and time passes;
\* a goroutine blocked in Lock gets the mutex if it stays free, in no order
Progress ==
    /\ WF_vars(ThrottleTick)
    /\ \A c \in Callers :
          /\ WF_vars(WaitLock(c))
          /\ WF_vars(WaitSince(c))
          /\ WF_vars(WaitWake(c))
          /\ WF_vars(WaitStamp(c))
          /\ WF_vars(WaitUnlock(c))
          /\ WF_vars(ClientRequest(c))

ContendedSpec == ThrottleInit /\ [][ThrottleNext]_vars /\ Progress

\* a mutex that may pass over a goroutine blocked in Lock for ever
LockInAnyOrder(c) == WF_vars(WaitLock(c))

\* api.go:30  a mutex that is fair to caller c: blocked in Lock while the mutex
\* is free again and again, c gets it
LockInTurn(c) == SF_vars(WaitLock(c))

(***************************************************************************)
(* The command loop with a shutdown.  main makes done and completed        *)
(* (main.go:86-87) and the loop serves them (main.go:128-131), but the     *)
(* close(done) and the <-completed of main are commented out               *)
(* (main.go:183-184): in Spec nothing is ever sent on done.  ShutdownSpec  *)
(* is the fleet with those two statements run from outside, at any time.   *)
(***************************************************************************)
\* main.go:183  close(done)
Shutdown ==
    /\ ~crashed
    /\ mpc \notin {"agent", "contracts", "accept"}
    /\ ~shut.done
    /\ shut' = [shut EXCEPT !.done = TRUE]
    /\ UNCHANGED <<tvars, ships, route, agent, bots, procs, dpc, dbot, cycle, reports,
                   mpc, req, crashed, err, system, nw, twin, sale>>

\* a command loop that returns on done without the send on completed
LoopDoneUnacknowledged ==
    /\ ~crashed
    /\ dpc = Select
    /\ shut.done
    /\ dpc' = Returned
    /\ UNCHANGED <<xvars, ships, route, agent, bots, procs, dbot, cycle, reports, mpc,
                   req, crashed>>

\* main.go:95, 128-129  the select takes case <-done
LoopDone ==
    /\ ~crashed
    /\ dpc = Select
    /\ shut.done
    /\ dpc' = Ack
    /\ UNCHANGED <<xvars, ships, route, agent, bots, procs, dbot, cycle, reports, mpc,
                   req, crashed>>

\* main.go:130-131, 184  completed <- true is received, and the loop returns
LoopAck ==
    /\ ~crashed
    /\ dpc = Ack
    /\ shut' = [shut EXCEPT !.completed = @ + 1]
    /\ dpc' = Returned
    /\ UNCHANGED <<tvars, ships, route, agent, bots, procs, dbot, cycle, reports,
                   mpc, req, crashed, err, system, nw, twin, sale>>

ShutdownNext ==
    \/ Next
    \/ Shutdown
    \/ LoopDone
    \/ LoopAck

ShutdownSpec == Init /\ [][ShutdownNext]_vars

\* lib.NearestWaypoint alone: one call on every reference point and every
\* list of at most MaxCandidates candidates on a small grid; no fleet
MaxCandidates == 3
GridX == {-1, 0, 1}
GridY == {0, 1}

\* the k-th candidate of a list, at (x, y)
Candidate(k, x, y) ==
    [symbol |-> k, type |-> "ASTEROID_FIELD", x |-> x, y |-> y, traits |-> <<>>]

CandidateLists ==
    UNION { { [k \in 1..n |-> Candidate(k, xs[k], ys[k])] :
                xs \in [1..n -> GridX], ys \in [1..n -> GridY] } : n \in 0..MaxCandidates }

NearestInit ==
    /\ NewThrottle
    /\ FleetAtRest
    /\ \E x \in {0, 1}, waypoints \in CandidateLists :
          nw = [pc |-> "call", currentWaypoint |-> Candidate(0, x, 0),
                waypoints |-> waypoints, result |-> <<>>]
    /\ twin = NoTwin
    /\ sale = NoSale

\* lib.go:43-61  the call returns a waypoint, or nil and an error
NearestCall ==
    /\ nw.pc = "call"
    /\ LET nearest == NearestWaypoint(nw.currentWaypoint, nw.waypoints)
       IN  IF nearest = {}
             THEN nw' = [nw EXCEPT !.pc = "error"]
             ELSE \E w \in nearest : nw' = [nw EXCEPT !.pc = "returned", !.result = <<w>>]
    /\ UNCHANGED <<tpc, tmutex, tsince, tsleep, tadmitted, tadmission,
                   ships, route, agent, bots, procs, dpc, dbot, cycle, reports, mpc, req,
                   crashed, err, system, shut, twin, sale>>

NearestSpec == NearestInit /\ [][NearestCall]_vars

\* SellCargo alone, run twice on the same hold against the same remote side,
\* with two values of sb.priorities: the k-th sell call of either run gets
\* the k-th answer, and every call after the last answer succeeds
MaxAnswers == 2
Runs == {1, 2}
PriorityLists == {<<>>, <<"IRON_ORE">>, <<"ICE_WATER">>, <<"IRON_ORE", "ICE_WATER">>}

TwinInit ==
    /\ NewThrottle
    /\ FleetAtRest
    /\ nw = NoQuery
    /\ sale = NoSale
    /\ \E cargo \in InitCargos, answers \in [1..MaxAnswers -> BOOLEAN],
          priorities \in [Runs -> PriorityLists] :
          twin = [answers |-> answers,
                  run |-> [r \in Runs |->
                            [pc |-> "sell_loop", priorities |-> priorities[r],
                             cargo |-> cargo, credits |-> 0,
                             lines |-> <<>>, idx |-> 0, calls |-> <<>>]]]

\* the answer of the remote side to the next sell call of a run
Answer(run) ==
    IF Len(run.calls) < Len(twin.answers) THEN twin.answers[Len(run.calls) + 1] ELSE TRUE

\* the range loop of a run goes to its next line, or the outer for repeats
TwinNextLine(run) ==
    IF run.idx < Len(run.lines)
      THEN [run EXCEPT !.idx = @ + 1]
      ELSE [run EXCEPT !.pc = "sell_loop", !.lines = <<>>, !.idx = 0]

\* a branch that sells the line and keeps the credits of the agent as they were
SellUncredited(run, ok) ==
    LET good == run.lines[run.idx]
        asked == [run EXCEPT !.calls = Append(@, [symbol |-> good.symbol,
                                                   units |-> good.units])]
    IN  IF ok /\ HasCargo(run.cargo, good.symbol, good.units)
          THEN [TwinNextLine(asked) EXCEPT
                  !.cargo = RemoveCargo(@, good.symbol, good.units)]
          ELSE [asked EXCEPT !.pc = "sell_loop", !.lines = <<>>, !.idx = 0]

\* main.go:472-485  the branch of a good in sb.priorities
SellPriority(run, ok) ==
    LET good == run.lines[run.idx]
        asked == [run EXCEPT !.calls = Append(@, [symbol |-> good.symbol,
                                                   units |-> good.units])]
    IN  IF ok /\ HasCargo(run.cargo, good.symbol, good.units)
          THEN [TwinNextLine(asked) EXCEPT
                  !.cargo = RemoveCargo(@, good.symbol, good.units),
                  !.credits = @ + good.units]
          ELSE [asked EXCEPT !.pc = "sell_loop", !.lines = <<>>, !.idx = 0]

\* main.go:487-500  the branch of any other good
SellOther(run, ok) ==
    LET good == run.lines[run.idx]
        asked == [run EXCEPT !.calls = Append(@, [symbol |-> good.symbol,
                                                   units |-> good.units])]
    IN  IF ok /\ HasCargo(run.cargo, good.symbol, good.units)
          THEN [TwinNextLine(asked) EXCEPT
                  !.cargo = RemoveCargo(@, good.symbol, good.units),
                  !.credits = @ + good.units]
          ELSE [asked EXCEPT !.pc = "sell_loop", !.lines = <<>>, !.idx = 0]

\* main.go:468-470, 503-506  the outer for of run r
TwinLoop(r) ==
    /\ twin # NoTwin
    /\ twin.run[r].pc = "sell_loop"
    /\ LET run == twin.run[r]
       IN  twin' = [twin EXCEPT !.run[r] =
                      IF run.cargo.units > 0
                        THEN [run EXCEPT !.lines = run.cargo.inventory, !.idx = 1,
                                         !.pc = IF Len(run.cargo.inventory) = 0
                                                  THEN "sell_loop" ELSE "sell_call"]
                        ELSE [run EXCEPT !.pc = "report"]]
    /\ UNCHANGED <<tvars, ships, route, agent, bots, procs, dpc, dbot, cycle, reports, mpc,
                   req, crashed, err, system, shut, nw, sale>>

\* main.go:471-501  one line of the inventory in run r
TwinCall(r) ==
    /\ twin # NoTwin
    /\ twin.run[r].pc = "sell_call"
    /\ LET run == twin.run[r]
           good == run.lines[run.idx]
       IN  twin' = [twin EXCEPT !.run[r] =
                      IF Contains(run.priorities, good.symbol)
                        THEN SellPriority(run, Answer(run))
                        ELSE SellOther(run, Answer(run))]
    /\ UNCHANGED <<tvars, ships, route, agent, bots, procs, dpc, dbot, cycle, reports, mpc,
                   req, crashed, err, system, shut, nw, sale>>

TwinNext ==
    \E r \in Runs : TwinLoop(r) \/ TwinCall(r)

TwinSpec == TwinInit /\ [][TwinNext]_vars

\* SellCargo on several ships at once.  Every ShipBot is made on the one
\* *m.Agent of the AgentBot (main.go:166, 385-394), so sb.agent.Credits is one
\* variable for all goroutines; the sell call (the transaction of the remote
\* side) and the assignments of its response are separate steps.  One unit
\* sells for one credit.
NumSellers == 2
Sellers == 1..NumSellers

\* no response held
NoResponse == <<>>

SellersInit ==
    /\ NewThrottle
    /\ FleetAtRest
    /\ nw = NoQuery
    /\ twin = NoTwin
    /\ \E cargo \in [Sellers -> InitCargos] :
          sale = [remote |-> 0, credits |-> 0,
                  sellers |-> [s \in Sellers |->
                                [pc |-> "sell_loop", cargo |-> cargo[s],
                                 lines |-> <<>>, idx |-> 0, res |-> NoResponse]]]

\* what the sale leaves alone
svars == <<tvars, ships, route, agent, bots, procs, dpc, dbot, cycle, reports, mpc,
           req, crashed, err, system, shut, nw, twin>>

\* main.go:468-470, 503-506  the outer for of goroutine s
SellersLoop(s) ==
    /\ sale # NoSale
    /\ sale.sellers[s].pc = "sell_loop"
    /\ LET sb == sale.sellers[s]
       IN  sale' = [sale EXCEPT !.sellers[s] =
                      IF sb.cargo.units > 0
                        THEN [sb EXCEPT !.lines = sb.cargo.inventory, !.idx = 1,
                                        !.pc = IF Len(sb.cargo.inventory) = 0
                                                 THEN "sell_loop" ELSE "sell_call"]
                        ELSE [sb EXCEPT !.pc = "report"]]
    /\ UNCHANGED svars

\* main.go:473-477, 488-492  res, err := sb.client.SellCargo(...): the remote
\* side executes the transaction and answers with the cargo and its balance
\* after it, or the call fails and break leaves the range loop
SellersCall(s) ==
    /\ sale # NoSale
    /\ sale.sellers[s].pc = "sell_call"
    /\ LET sb == sale.sellers[s]
           good == sb.lines[sb.idx]
       IN  \/ /\ HasCargo(sb.cargo, good.symbol, good.units)
              /\ sale' = [sale EXCEPT
                            !.remote = @ + good.units,
                            !.sellers[s].pc = "sell_assign",
                            !.sellers[s].res =
                               [cargo |-> RemoveCargo(sb.cargo, good.symbol, good.units),
                                credits |-> sale.remote + good.units]]
           \/ sale' = [sale EXCEPT !.sellers[s].pc = "sell_loop",
                                   !.sellers[s].lines = <<>>,
                                   !.sellers[s].idx = 0]
    /\ UNCHANGED svars

\* main.go:482-485, 497-500  sb.ship.Cargo = res.Cargo;
\* sb.agent.Credits = res.Agent.Credits; then the next line of the range
SellersAssign(s) ==
    /\ sale # NoSale
    /\ sale.sellers[s].pc = "sell_assign"
    /\ LET sb == sale.sellers[s]
           last == sb.idx >= Len(sb.lines)
       IN  sale' = [sale EXCEPT
                     !.credits = sb.res.credits,
                     !.sellers[s] =
                        [sb EXCEPT !.cargo = sb.res.cargo,
                                   !.res = NoResponse,
                                   !.pc = IF last THEN "sell_loop" ELSE "sell_call",
                                   !.lines = IF last THEN <<>> ELSE @,
                                   !.idx = IF last THEN 0 ELSE @ + 1]]
    /\ UNCHANGED svars

SellersNext ==
    \E s \in Sellers : SellersLoop(s) \/ SellersCall(s) \/ SellersAssign(s)

SellersSpec == SellersInit /\ [][SellersNext]_vars

(***************************************************************************)
(* Properties                                                              *)
(***************************************************************************)
\* the goroutines running a ship action that has not yet come to its report
Acting == {p \in Live : procs[p].kind # "FANOUT" /\ procs[p].pc # "report"}

\* the positions at which the next step of a goroutine is a ship action call
CallPositions == {"sell_call", "extract_call", "dock_call", "nav_call"}

\* C1: under ThrottleSpec, with any number of callers inside Wait, a caller
\* that is about to stamp LastRequestTime (its admission) finds that at least
\* 1/R seconds, TimeToWait ticks, have passed since the previous stamp.
C1_AdmissionsSpaced ==
    \A c \in Callers : tpc[c] = "stamp" => tsince >= TimeToWait

\* C1 witness: a caller is about to be admitted after an earlier admission
\* while another caller is blocked on the mutex
C1_ContendedAdmission ==
    \E c, d \in Callers :
        /\ c # d
        /\ tadmitted >= 1
        /\ tpc[c] = "stamp"
        /\ tpc[d] = "lock"

\* C2: when the command loop is back at its select after the report of an
\* EXCAVATOR ship, it has started exactly one action goroutine for that
\* report: never none and never two.
C2_ExactlyOneSpawn ==
    (dpc = Select /\ cycle.role = "EXCAVATOR") => Len(cycle.spawned) = 1

\* C3: at every instant at most one action goroutine of a ship is executing:
\* no two goroutines that have not yet come to their report work on the same
\* ship.
C3_OneActionPerShip ==
    \A p, q \in Acting : p # q => ShipOf(p) # ShipOf(q)

\* C4: when the decision on the report of an EXCAVATOR ship is complete and
\* the ship did not change during it, exactly one action has been started and
\* it is the one of the ordered table: full, market, docked -> SellCargo;
\* full, market, not docked -> DockShip; full, not market -> navigate to the
\* nearest marketplace; not full, at a field -> ExtractResources; not full,
\* not at a field -> navigate to the nearest asteroid field.
C4_OrderedTable ==
    LET seen == cycle.seen
        action == IF seen.full
                    THEN IF seen.market
                           THEN IF seen.docked THEN "SellCargo" ELSE "DockShip"
                           ELSE "NavigateToNearestWaypointWithTrait"
                    ELSE IF seen.field
                           THEN "ExtractResources"
                           ELSE "NavigateToNearestWaypointOfType"
    IN  (dpc = Select /\ cycle.role = "EXCAVATOR" /\ cycle.stable)
            => cycle.spawned = <<action>>

\* C4 witness: a decision is complete on a ship that did not change, with an
\* empty hold at an asteroid field, and ExtractResources has been started
C4_StableDecision ==
    /\ dpc = Select
    /\ cycle.role = "EXCAVATOR"
    /\ cycle.stable
    /\ ~cycle.seen.full
    /\ cycle.seen.field
    /\ cycle.spawned = <<"ExtractResources">>

\* C5: no goroutine is about to issue a ship action call (navigate, dock,
\* extract, sell) for a ship, and the requisition protocol is not about to
\* issue its navigate call, while now is before the arrival of the ship's
\* current route.
C5_NoCallInTransit ==
    /\ \A p \in Live :
          procs[p].pc \in CallPositions => ~After(route[ShipOf(p)].arrival)
    /\ (~crashed /\ req.pc = "call") => ~After(route[1].arrival)

C7_NoExtractWhenFull ==
    /\ \A i \in Ships : ships[i].cargo.units <= ships[i].cargo.capacity
    /\ \A p \in Live :
          procs[p].pc = "extract_call" => ~IsFullOfCargo(ships[ShipOf(p)])

\* C8: in a run of SellCargo, a line of the inventory the action started with
\* is asked to be sold at most once, and exactly once when the action has
\* come to its report, unless the call of a line before it has failed.
C8_EachLineOnce ==
    \A p \in Live :
        procs[p].kind = "SellCargo" =>
            \A k \in 1..Len(procs[p].entry) :
                LET calls == procs[p].calls
                    asked == {n \in 1..Len(calls) :
                                calls[n].symbol = procs[p].entry[k].symbol}
                    priorFailed ==
                        \E n \in 1..Len(calls) : \E j \in 1..(k - 1) :
                            /\ ~calls[n].ok
                            /\ calls[n].symbol = procs[p].entry[j].symbol
                IN  ~priorFailed =>
                        /\ Cardinality(asked) <= 1
                        /\ procs[p].pc = "report" => Cardinality(asked) = 1

\* C9: once a sell call of a run of SellCargo has failed, that run issues no
\* further sell call.
C9_NoCallAfterFailure ==
    \A p \in Live : procs[p].failed => procs[p].pc # "sell_call"

\* what the next step of a goroutine writes: the credits of the shared agent,
\* the cargo or the nav of its ship, the cooldown of its ShipBot
WritesOf(p) ==
    LET i == ShipOf(p)
        pc == procs[p].pc
    IN  IF pc = "sell_call"
          THEN {[datum |-> "credits", of |-> 0], [datum |-> "cargo", of |-> i]}
        ELSE IF pc = "extract_call"
          THEN {[datum |-> "cargo", of |-> i], [datum |-> "cooldown", of |-> procs[p].bot]}
        ELSE IF pc \in {"dock_call", "nav_call"}
          THEN {[datum |-> "nav", of |-> i]}
        ELSE {}

\* C10: no datum of the fleet (ship state, cooldown, agent credits) is about
\* to be written by two goroutines at once.
C10_SingleWriter ==
    \A p, q \in Live : p # q => WritesOf(p) \cap WritesOf(q) = {}

\* C11: while an action goroutine of a ship is executing, the command loop is
\* not about to read that ship: it is at no if statement of the RoleSwitch
\* (each of which reads sb.ship) on a ShipBot of the same ship.
C11_NoReadWhileActing ==
    Deciding => \A p \in Acting : ShipOf(p) # bots[dbot].ship

C13_NoShipyardsPanic ==
    Len(FindWaypointsByTrait("SHIPYARD")) = 0 =>
        /\ req.pc \in {"idle", "find"} \/ mpc = "panicked"
        /\ Len(ships) > 0 =>
              /\ Live = {}
              /\ \A b \in Bots : bots[b] = NoBot
              /\ reports = 0
              /\ dpc = Select

\* the protocol has looked for shipyards where there is none
C13_PanickedWithoutShipyards ==
    /\ Len(FindWaypointsByTrait("SHIPYARD")) = 0
    /\ mpc = "panicked"
    /\ crashed

\* C14: the requisition protocol waits for the arrival of each navigate call:
\* it is not about to issue a navigate call while the route of the previous one
\* has not arrived, and when it has returned and main is about to fan the fleet
\* out, the route of its last navigate call has arrived.
C14_SequentialVisits ==
    ~crashed =>
        /\ req.pc = "call" => ~After(route[1].arrival)
        /\ (req.pc = "done" /\ mpc = "fanout" /\ Len(ships) > 0) => ~After(route[1].arrival)

\* C15: NearestWaypoint returns the candidate at the least Euclidean distance
\* from the reference point, the first such candidate of the list when several
\* are at that distance, and an error on the empty list.
C15_NearestFirst ==
    /\ nw.pc = "error" => Len(nw.waypoints) = 0
    /\ nw.pc = "returned" =>
          \E k \in 1..Len(nw.waypoints) :
             /\ nw.result = <<nw.waypoints[k]>>
             /\ \A j \in 1..Len(nw.waypoints) :
                   LET dk == Distance(nw.currentWaypoint, nw.waypoints[k])
                       dj == Distance(nw.currentWaypoint, nw.waypoints[j])
                   IN  dk <= dj /\ (dj = dk => k <= j)

\* the goroutines started by the command loop so far and still running
Spawned == {p \in Live : procs[p].kind # "FANOUT"}

\* a step taken once the loop is past the case <-done, the process living on:
\* the loop stays past it, receives no report and starts no goroutine
AfterDone ==
    (dpc \in {Ack, Returned} /\ ~crashed') =>
        /\ dpc' \in {Ack, Returned}
        /\ reports' = reports
        /\ Spawned' \subseteq Spawned

C17_NoPartialStartup ==
    err \cap {"GetMyAgent", "GetMyContracts", "GetMyShips"} # {} =>
        /\ crashed
        /\ mpc = "fatal"
        /\ req.pc = "idle"
        /\ Live = {}
        /\ \A b \in Bots : bots[b] = NoBot
        /\ reports = 0
        /\ dpc = Select

\* the fetch of the fleet has failed, the command loop being already started
C17_FleetFetchFailed ==
    /\ "GetMyShips" \in err
    /\ crashed

\* goroutine p gets the response of a successful sell call in this step: the
\* line it asked to sell leaves the hold of its ship
Sold(p) ==
    /\ procs[p].pc = "sell_call"
    /\ procs'[p] # procs[p]
    /\ LET good == procs[p].lines[procs[p].idx]
       IN  /\ HasCargo(ships[ShipOf(p)].cargo, good.symbol, good.units)
           /\ ships'[ShipOf(p)].cargo =
                 RemoveCargo(ships[ShipOf(p)].cargo, good.symbol, good.units)

\* the credits of the agent change in this step
Credited ==
    agent'.credits # agent.credits =>
        \E p \in Live :
           /\ Sold(p)
           /\ agent'.credits =
                 agent.credits + procs[p].lines[procs[p].idx].units

\* C18: the credits of the agent change only in a step in which a goroutine
\* gets the response of a successful sell call, and become the balance of that
\* transaction (the balance before plus the units sold); every other step,
\* failed sell calls included, leaves them as they are.
C18_CreditsOnlyBySale == [][Credited]_vars

\* a sale has been credited
C18_SaleCredited ==
    /\ ~crashed
    /\ agent.credits > 0
    /\ \E p \in Live : procs[p].kind = "SellCargo" /\ Len(procs[p].calls) > 0

C20_ReportAfterArrival ==
    \A p \in Live :
       (/\ procs[p].kind \in {"NavigateToNearestWaypointOfType",
                              "NavigateToNearestWaypointWithTrait"}
        /\ After(procs[p].eta))
         => procs[p].pc \in {"nav_wait", "nav_sleep"}

\* a navigation sleeps until the arrival its navigate call returned, the ship
\* holding the fuel and the nav of the response
C20_WaitingForArrival ==
    \E p \in Live :
       /\ procs[p].kind \in {"NavigateToNearestWaypointOfType",
                             "NavigateToNearestWaypointWithTrait"}
       /\ procs[p].pc = "nav_sleep"
       /\ After(procs[p].eta)
       /\ procs[p].sleep = procs[p].eta
       /\ ships[ShipOf(p)].nav.status = "IN_TRANSIT"
       /\ ships[ShipOf(p)].nav.arrival = procs[p].eta

\* a navigation in progress, and the positions after its search
Navigating(p) ==
    procs[p].kind \in {"NavigateToNearestWaypointOfType",
                       "NavigateToNearestWaypointWithTrait"}
AfterSearch == {"nav_call", "nav_wait", "nav_sleep"}

\* the step of a navigation whose criterion no waypoint of the system matches:
\* it goes to its send on sbCh and writes neither the ship nor its route
SearchFails ==
    \A p \in Procs :
        ( /\ ~crashed'
          /\ Navigating(p)
          /\ procs[p].pc = "nav_list"
          /\ Candidates(procs[p].kind, Waypoints) = <<>>
          /\ procs'[p] # procs[p] )
        => /\ procs'[p].pc = "report"
           /\ ships' = ships
           /\ route' = route

\* C21: when no waypoint of the system matches the criterion (type or trait),
\* the navigation issues no navigate call, leaves the fuel and the nav of the
\* ship as they are, and goes to its one send of the ship to the command loop
C21_NoCandidateNoCall ==
    /\ [](\A p \in Procs :
            (Navigating(p) /\ Candidates(procs[p].kind, Waypoints) = <<>>)
            => procs[p].pc \notin AfterSearch)
    /\ [][SearchFails]_vars

\* a navigation by trait is at its send after a search that found no marketplace
C21_ReportedWithoutCall ==
    \E p \in Procs :
        /\ ~crashed
        /\ procs[p].kind = "NavigateToNearestWaypointWithTrait"
        /\ procs[p].pc = "report"
        /\ Candidates(procs[p].kind, Waypoints) = <<>>
        /\ ships[ShipOf(p)].fuel = MaxFuel
        /\ ships[ShipOf(p)].nav.status # "IN_TRANSIT"

\* the step of navigation p in which its ListWaypoints call returns an error
ListFailed(p) ==
    /\ Navigating(p)
    /\ procs[p].pc = "nav_list"
    /\ \/ ~crashed' /\ procs'[p].failed
       \/ "ListWaypoints" \in err' /\ "ListWaypoints" \notin err

ListFailureReported ==
    \A p \in Procs :
        ListFailed(p) => /\ ~crashed'
                         /\ procs'[p].pc = "report"
                         /\ ships' = ships
                         /\ route' = route

\* C22: when the ListWaypoints call of a navigation fails, by type or by
\* trait, the navigation goes to its send of the ship without a navigate
\* call, the ship and its route are as before, and the process keeps running
C22_ListFailureReported ==
    [][ListFailureReported]_vars

\* the step of DockShip p in which its dock call returns
DockReturned(p) ==
    /\ procs[p].kind = "DockShip"
    /\ procs[p].pc = "dock_call"
    /\ \/ ~crashed' /\ procs'[p] # procs[p]
       \/ "DockShip" \in err' /\ "DockShip" \notin err

\* the nav the remote side holds of ship i once it is docked
DockedNav(i) ==
    [waypointSymbol |-> route[i].destination, destination |-> route[i].destination,
     status |-> "DOCKED", arrival |-> route[i].arrival]

DockReported ==
    \A p \in Procs :
        DockReturned(p) =>
            /\ ~crashed'
            /\ procs'[p].pc = "report"
            /\ \/ ships' = ships
               \/ ships' = [ships EXCEPT ![ShipOf(p)].nav = DockedNav(ShipOf(p))]

\* C23: DockShip issues one dock call; when it succeeds the nav of the ship is
\* the nav of the response, when it fails the nav is as before, and in both
\* cases the action goes to its one send of the ship to the command loop
C23_DockReported ==
    [][DockReported]_vars

\* NavigateShip(W) has returned: the protocol is at the next shipyard, or done
ReqReturned ==
    \/ req'.pc = "navigate" /\ req'.yards = Tail(req.yards)
    \/ req'.pc = "done" /\ Len(req.yards) = 1 /\ mpc' = "fanout"

\* the steps of NavigateShip(W) on the local nav of the ship
NavigateShipCases ==
    LET W == Head(req.yards)
        nav == ships[1].nav
    IN  (~crashed' /\ req' # req) =>
        CASE req.pc = "navigate" ->
               /\ route' = route
               /\ IF nav.waypointSymbol = W /\ Before(nav.arrival)
                    THEN ReqReturned
                    ELSE IF After(nav.arrival) /\ nav.destination = W
                           THEN req'.pc = "sleep_return" /\ req'.sleep = nav.arrival
                           ELSE IF After(nav.arrival)
                                  THEN req'.pc = "sleep_call" /\ req'.sleep = nav.arrival
                                  ELSE req'.pc = "call"
          [] req.pc = "sleep_return" ->
               \/ req'.pc = "sleep_return"
               \/ Before(req.sleep) /\ ReqReturned /\ route' = route
          [] req.pc = "sleep_call" ->
               \/ req'.pc = "sleep_call"
               \/ Before(req.sleep) /\ req'.pc = "call" /\ req'.yards = req.yards
                                    /\ route' = route
          [] req.pc = "call" ->
               /\ ReqReturned
               /\ \/ route' = route
                  \/ \E t \in Timers :
                        route' = [route EXCEPT ![1] = [destination |-> W, arrival |-> t]]
          [] OTHER -> TRUE

\* C24: NavigateShip(W) of the requisition decides on the local nav of the
\* ship: at W with the arrival passed it returns with no call and no wait; in
\* transit to W it waits for the arrival and returns with no call; otherwise
\* it waits out a transit in progress and then issues one navigate call to W
C24_NavigateShipCases ==
    [][NavigateShipCases]_vars

\* the protocol waits for the arrival at the shipyard the ship is flying to
C24_AlreadyTravelling ==
    /\ ~crashed
    /\ req.pc = "sleep_return"
    /\ After(ships[1].nav.arrival)
    /\ ships[1].nav.destination = Head(req.yards)
    /\ route[1].destination = Head(req.yards)

\* one sequence of sell calls begins the other
IsPrefix(a, b) ==
    /\ Len(a) <= Len(b)
    /\ \A k \in 1..Len(a) : a[k] = b[k]

\* C25: under TwinSpec, two runs of SellCargo that differ only in
\* sb.priorities issue the same sell calls (good and units) in the same order,
\* and end with the same cargo and the same credits
C25_PrioritiesIgnored ==
    LET a == twin.run[1]
        b == twin.run[2]
    IN  /\ IsPrefix(a.calls, b.calls) \/ IsPrefix(b.calls, a.calls)
        /\ Len(a.calls) = Len(b.calls) /\ a.pc = b.pc
             => a.cargo = b.cargo /\ a.credits = b.credits
        /\ a.pc = "report" /\ b.pc = "report"
             => a.calls = b.calls /\ a.cargo = b.cargo /\ a.credits = b.credits

\* both runs are over, one with IRON_ORE in its priorities and one without
\* priorities; a sell call has failed and IRON_ORE has been sold
C25_BothRunsOver ==
    /\ twin.run[1].pc = "report"
    /\ twin.run[2].pc = "report"
    /\ twin.run[1].priorities = <<"IRON_ORE">>
    /\ twin.run[2].priorities = <<>>
    /\ ~twin.answers[1]
    /\ \E k \in 1..Len(twin.run[1].calls) : twin.run[1].calls[k].symbol = "IRON_ORE"
    /\ twin.run[1].credits = CargoCapacity

\* caller c is blocked in Lock; c has stamped LastRequestTime
Blocked(c) == tpc[c] = "lock"
Admitted(c) == tadmission[c] # NoAdmission

\* C26: under ContendedSpec (any order of lock acquisition), Wait never sleeps
\* longer than 1/R, a caller that no other caller joins is admitted, and with
\* a mutex that is fair to every caller each blocked caller is admitted; the
\* last part needs the fair mutex
C26_AdmittedIfFair ==
    /\ [](\A c \in Callers : tsleep[c] <= TimeToWait)
    /\ \A c \in Callers :
          Blocked(c) ~> (Admitted(c) \/ \E d \in Callers \ {c} : tpc[d] # "idle")
    /\ (\A c \in Callers : LockInTurn(c)) => (\A c \in Callers : Blocked(c) ~> Admitted(c))

\* a caller is blocked in Lock after two admissions of others, the mutex held
C26_PassedOver ==
    \E c \in Callers :
        /\ Blocked(c)
        /\ tmutex \notin {0, c}
        /\ tadmitted = 2
        /\ \E d \in Callers \ {c} : Blocked(d)

\* the goroutines of the fan-out, and those of them that work on ship i
FannedOut == {p \in Procs : procs[p].kind = "FANOUT"}
FanOf(i) == {p \in FannedOut : ShipOf(p) = i}

\* the steps of the fan-out: it starts one goroutine per ship, each goroutine
\* probes the cooldown, then sends, and ends when the command loop receives
FanOutSteps ==
    ~crashed' =>
      /\ (mpc = "fanout" /\ mpc' = "barrier") =>
            \A i \in Ships :
               /\ Cardinality({p \in Procs : procs'[p].kind = "FANOUT"
                                             /\ bots'[procs'[p].bot].ship = i}) = 1
               /\ \A p \in Procs : procs'[p].kind = "FANOUT" => procs'[p].pc = "probe"
      /\ \A p \in Procs :
            /\ (procs'[p].kind = "FANOUT" /\ p \notin FannedOut) => mpc = "fanout"
            /\ (p \in FannedOut /\ procs'[p] # procs[p]) =>
                  \/ /\ procs[p].pc = "probe"
                     /\ procs'[p] = [procs[p] EXCEPT !.pc = "report"]
                  \/ /\ procs[p].pc = "report"
                     /\ procs'[p] = NoProc
                     /\ reports' = reports + 1
                     /\ \A q \in FannedOut \ {p} : procs'[q] = procs[q]

\* C27: the fan-out starts one goroutine for every ship of the fleet, each on
\* its own ShipBot and its own ship; each probes the cooldown and then sends
\* its ship to the command loop once, and no other goroutine of the fan-out
\* is ever started
C27_FanOutOncePerShip ==
    /\ [](~crashed =>
            /\ \A i \in Ships : Cardinality(FanOf(i)) <= 1
            /\ \A p, q \in FannedOut : p # q => procs[p].bot # procs[q].bot
            /\ reports = 0 /\ mpc = "barrier"
                 => \A i \in Ships : Cardinality(FanOf(i)) = 1)
    /\ [][FanOutSteps]_vars

\* the two goroutines of the fan-out of a two-ship fleet, each on its own ship,
\* have probed and are at their send
C27_BothAtSend ==
    /\ ~crashed
    /\ Len(ships) = 2
    /\ reports = 0
    /\ \E p, q \in FannedOut :
          /\ ShipOf(p) = 1 /\ ShipOf(q) = 2
          /\ procs[p].pc = "report" /\ procs[q].pc = "report"

\* the goroutines of ship actions that have come to their send on sbCh
AtSend == {p \in Live : procs[p].kind # "FANOUT" /\ procs[p].pc = "report"}

\* C28: under ShutdownSpec, an action in flight when the command loop takes
\* the shutdown signal still finishes: once it has run to its send on sbCh it
\* is not left there with the command loop gone, the only receiver of sbCh
C28_InFlightFinishes ==
    (~crashed /\ dpc \in {Ack, Returned}) => AtSend = {}

\* ship i has a role the RoleSwitch does nothing for
Unhandled(i) == ships[i].role # "EXCAVATOR"

\* the step in which the command loop receives the report of such a ship: the
\* loop is back at its select, no goroutine is started, nothing is written
ConsumedIdly ==
    \A p \in Live :
        ( /\ ~crashed'
          /\ Unhandled(ShipOf(p))
          /\ procs[p].pc = "report"
          /\ procs'[p] = NoProc )
        => /\ dpc' = Select
           /\ procs' = [procs EXCEPT ![p] = NoProc]
           /\ reports' = reports + 1
           /\ ships' = ships /\ route' = route /\ agent' = agent

\* C29: a ship whose role is not EXCAVATOR is sent to the command loop by the
\* fan-out only; when its report is received the loop starts no action and
\* makes no call, and no goroutine works on that ship afterwards, so it is
\* never received again
C29_UnhandledRoleIdle ==
    /\ [](~crashed =>
            /\ \A p \in Live : Unhandled(ShipOf(p)) => procs[p].kind = "FANOUT"
            /\ Deciding => ~Unhandled(bots[dbot].ship))
    /\ [][ConsumedIdly]_vars

\* the report of the command ship has been received, and later the excavator
\* of the same fleet has been sent to sell
C29_FlagshipIdle ==
    /\ ~crashed
    /\ mpc = "barrier"
    /\ Len(ships) = 2
    /\ Unhandled(1)
    /\ reports = 2
    /\ \A p \in Live : ShipOf(p) = 2 /\ procs[p].kind = "SellCargo"
    /\ Live # {}

\* main at its last wg.Wait() (main.go:181)
AtBarrier == ~crashed /\ mpc = "barrier"

\* the steps that take main off the barrier: with a fleet a panic only, with
\* no ship the return of main
BarrierSteps ==
    (AtBarrier /\ mpc' # mpc) =>
        IF Len(ships) > 0
          THEN mpc' = "panicked"
          ELSE mpc' = "exited" /\ crashed'

\* C30: with a fleet main never gets past its last wg.Wait(): the process
\* does not end by the return of main, and while it runs the command loop is
\* in its select or its RoleSwitch; with no ship main can return at once, and
\* the process has exited only in that case, nothing having been started
C30_BarrierHoldsMain ==
    /\ [](mpc = "exited" => Len(ships) = 0 /\ Live = {} /\ reports = 0)
    /\ []((AtBarrier /\ Len(ships) > 0) => dpc \in Select..LastIf)
    /\ []((AtBarrier /\ Len(ships) = 0) => ENABLED MainReturn)
    /\ [][BarrierSteps]_vars

\* every report of a fleet has been received and no goroutine is left, and
\* main is still at the barrier
C30_StillWaiting ==
    /\ AtBarrier
    /\ Len(ships) > 0
    /\ reports > 0
    /\ Live = {}
    /\ dpc = Select

\* the ShipBot of goroutine p holds no cooldown: the probe of the fan-out failed
\* and no extract call has answered since
Unprobed(p) == ~bots[procs[p].bot].cooldown.set

\* the step of the fan-out goroutine p after its probe, and the step of an
\* ExtractResources p on a ShipBot without cooldown and a hold not full
ProbeFailureSurvived ==
    \A p \in Procs :
        /\ ( /\ ~crashed'
             /\ procs[p].kind = "FANOUT"
             /\ procs[p].pc = "probe"
             /\ procs'[p] # procs[p] )
           => procs'[p].pc = "report"
        /\ ( /\ procs[p].kind = "ExtractResources"
             /\ procs[p].pc = "extract_loop"
             /\ Unprobed(p)
             /\ ~IsFullOfCargo(ships[ShipOf(p)])
             /\ \/ ~crashed' /\ procs'[p] # procs[p]
                \/ "GetShipCooldown" \in err' /\ "GetShipCooldown" \notin err )
           => /\ ~crashed'
              /\ procs'[p].pc = "extract_sleep"

\* C31: a ship whose cooldown probe failed is still sent to the command loop,
\* and an ExtractResources started for it later goes on to its wait and its
\* extract call: the process does not end
C31_ProbeFailureSurvived ==
    [][ProbeFailureSurvived]_vars

\* C32: under SellersSpec, once every SellCargo running at the same time has
\* come to its send, the credits the program holds for the agent are the
\* balance of the remote side: the response written last is that of the
\* transaction executed last
C32_CreditsMatchRemote ==
    (\A s \in Sellers : sale.sellers[s].pc = "report") => sale.credits = sale.remote

====
